---- MODULE Spec2Model ----
(***************************************************************************)
(* A model of game.py: the Screen pixel grid, the Snake and Food world     *)
(* objects, and the Controller's input buffer and frame loop.              *)
(*                                                                         *)
(* Python tuples and lists are TLA+ sequences, so the Python index i is    *)
(* the TLA+ index i + 1: body[1] is the head, pixels[y + 1][x + 1] is the  *)
(* Python cell pixels[y][x].                                               *)
(***************************************************************************)
EXTENDS Integers, Sequences, FiniteSets

(***************************************************************************)
(* Bounds of the model.                                                    *)
(***************************************************************************)
MaxDim == 3
MaxLen == 3
MaxSpeed == 2
MaxExtraMoves == 2
MaxScreenDim == 2
MaxScreenOps == 2
MaxCap == 2
MaxPreload == 3
MaxIter == 2
MaxObjectCalls == 1

(***************************************************************************)
(* Program constants.                                                      *)
(***************************************************************************)
DefaultW == 20
DefaultH == 20
ActorLength == 9
FoodXY == 10
MAX_INPUT_BUFFER == 10

None == "None"
ETX == "ETX"

Max(a, b) == IF a >= b THEN a ELSE b

(***************************************************************************)
(* Screen                                                                  *)
(***************************************************************************)
ScreenColor == <<0, 0, 0>>
D_PIXEL == <<None, ScreenColor>>
ObjectColor == <<1, 1, 1>>
SnakePixel == <<"=", ObjectColor>>
FoodPixel == <<"^", ObjectColor>>

\* Screen.__init__ / Screen.clear: `width` rows of `height` default pixels.
NewPixels(width, height) == [r \in 1..width |-> [c \in 1..height |-> D_PIXEL]]

\* The screen as a value: the grid, the error list, and whether an
\* IndexError has escaped from a write.
NewScreen(width, height) ==
    [pixels |-> NewPixels(width, height), errors |-> <<>>, raised |-> FALSE]

clear(scr, width, height) == [scr EXCEPT !.pixels = NewPixels(width, height)]

\* The guard of Screen.set_pixel that records an overflow.
Overflows(px, x, y) == y < 0 \/ x < 0 \/ y > Len(px) \/ x > Len(px[1])

\* Screen.set_pixel: an overflow is recorded and dropped; otherwise the
\* assignment pixels[y][x] = pixel is made, which raises IndexError when
\* y or x equals the length of the list it indexes.
set_pixel(scr, x, y, pixel) ==
    IF scr.raised THEN scr
    ELSE IF Overflows(scr.pixels, x, y)
         THEN [scr EXCEPT !.errors = Append(@, <<x, y>>)]
    ELSE IF y + 1 > Len(scr.pixels) \/ x + 1 > Len(scr.pixels[y + 1])
         THEN [scr EXCEPT !.raised = TRUE]
    ELSE [scr EXCEPT !.pixels[y + 1][x + 1] = pixel]

(***************************************************************************)
(* Snake and Food                                                          *)
(***************************************************************************)
Up == <<0, -1>>
Left == <<-1, 0>>
Right == <<1, 0>>
Down == <<0, 1>>
Directions == {Up, Left, Right, Down}

\* Snake._create_snake: `length` cells down the y axis from `start`.
_create_snake(start, length) == [i \in 1..length |-> <<start[1], start[2] + (i - 1)>>]

\* A remainder that truncates toward zero, as % does in C or Java.
TruncatingMove(p, dx, dy, wd, ht) ==
    LET rem(a, b) == IF a < 0 THEN -((-a) % b) ELSE a % b
    IN  <<rem(p[1] + dx, wd), rem(p[2] + dy, ht)>>

\* The wrap with the world's width and height exchanged.
SwappedMove(p, dx, dy, wd, ht) == <<(p[1] + dx) % ht, (p[2] + dy) % wd>>

\* Snake._move
_move(p, dx, dy, wd, ht) == <<(p[1] + dx) % wd, (p[2] + dy) % ht>>

\* The shift made from the second index up to i, so that every segment
\* receives the head.
RECURSIVE ShiftBodyAscending(_, _)
ShiftBodyAscending(b, i) ==
    IF i < 2 THEN b
    ELSE LET lower == ShiftBodyAscending(b, i - 1)
         IN  [lower EXCEPT ![i] = lower[i - 1]]

\* The loop of Snake.translate, from the last index down to the second.
RECURSIVE ShiftBody(_, _)
ShiftBody(b, i) ==
    IF i < 2 THEN b ELSE ShiftBody([b EXCEPT ![i] = b[i - 1]], i - 1)

\* Snake.__init__ on top of WObject.__init__
Snake(p, length, dir, spd) ==
    [pos |-> p, body |-> _create_snake(p, length), direction |-> dir, speed |-> spd]

\* Snake.translate
translate(a, dx, dy, wd, ht) ==
    LET shifted == ShiftBody(a.body, Len(a.body))
        moved == [shifted EXCEPT ![1] = _move(shifted[1], dx, dy, wd, ht)]
    IN  [a EXCEPT !.body = moved, !.pos = moved[1]]

\* Snake.move
move(a, wd, ht) ==
    translate(a, a.direction[1] * a.speed, a.direction[2] * a.speed, wd, ht)

\* Snake.draw: one set_pixel per body segment, head first.
RECURSIVE SnakeDraw(_, _, _)
SnakeDraw(scr, b, i) ==
    IF i > Len(b) THEN scr
    ELSE SnakeDraw(set_pixel(scr, b[i][1], b[i][2], SnakePixel), b, i + 1)

\* Food.draw
FoodDraw(scr, fpos) == set_pixel(scr, fpos[1], fpos[2], FoodPixel)

\* World.draw: the objects in insertion order, the snake then the food.
WorldDraw(scr, b, fpos) == FoodDraw(SnakeDraw(scr, b, 1), fpos)

(***************************************************************************)
(* Controller                                                              *)
(***************************************************************************)
Keys == {"w", "a", "s", "d", "q", "x"}
ExitSignals == {"q", "x"}

\* A consumption that takes the newest entry (pop() instead of pop(0)).
NewestInput(buf) ==
    IF buf = <<>> THEN <<None, buf>>
    ELSE <<buf[Len(buf)], SubSeq(buf, 1, Len(buf) - 1)>>

\* A read that returns the oldest entry and leaves it in the buffer.
PeekInput(buf) == IF buf = <<>> THEN <<None, buf>> ELSE <<buf[1], buf>>

\* Controller.get_input: pops entries until one is not None; the pair of
\* the key returned and the buffer left.
RECURSIVE get_input(_)
get_input(buf) ==
    IF buf = <<>> THEN <<None, buf>>
    ELSE IF Head(buf) # None THEN <<Head(buf), Tail(buf)>>
    ELSE get_input(Tail(buf))

\* A key table with the vertical directions exchanged.
InvertedDirection(ch, dir) ==
    IF ch = "w" THEN Down
    ELSE IF ch = "a" THEN Left
    ELSE IF ch = "d" THEN Right
    ELSE IF ch = "s" THEN Up
    ELSE dir

\* A key that turns the direction by adding its step to the current one.
AddedDirection(ch, dir) ==
    IF ch = "w" THEN <<dir[1], dir[2] - 1>>
    ELSE IF ch = "a" THEN <<dir[1] - 1, dir[2]>>
    ELSE IF ch = "d" THEN <<dir[1] + 1, dir[2]>>
    ELSE IF ch = "s" THEN <<dir[1], dir[2] + 1>>
    ELSE dir

\* The direction assignments of Controller.update.
NewDirection(ch, dir) ==
    IF ch = "w" THEN Up
    ELSE IF ch = "a" THEN Left
    ELSE IF ch = "d" THEN Right
    ELSE IF ch = "s" THEN Down
    ELSE dir

\* Controller._received_exit_signal: the scan from the back of the buffer.
RECURSIVE ScanExit(_, _, _)
ScanExit(buf, i, sig) ==
    IF i < 1 THEN FALSE
    ELSE IF buf[i] = sig THEN TRUE
    ELSE ScanExit(buf, i - 1, sig)

\* An exit test that looks at the newest entry only.
NewestIsExit(buf, sig) == buf # <<>> /\ buf[Len(buf)] = sig

_received_exit_signal(buf, sig) == ScanExit(buf, Len(buf), sig)

\* A poll that evicts as soon as the buffer holds cap entries.
EvictAtCap(buf, cap, ch) ==
    LET kept == IF Len(buf) >= cap THEN SubSeq(buf, 2, Len(buf)) ELSE buf
    IN  IF ch # None THEN Append(kept, ch) ELSE kept

\* A poll that evicts the newest entry instead of the oldest.
EvictNewest(buf, cap, ch) ==
    LET kept == IF Len(buf) > cap THEN SubSeq(buf, 1, Len(buf) - 1) ELSE buf
    IN  IF ch # None THEN Append(kept, ch) ELSE kept

\* Controller._buffer_input: the buffer after a poll that read ch.
_buffer_input(buf, cap, ch) ==
    LET kept == IF Len(buf) > cap THEN Tail(buf) ELSE buf
    IN  IF ch # None THEN Append(kept, ch) ELSE kept

(***************************************************************************)
(* State.  w, h, screen, actor, food, input_buffer, exit_signal, cap and   *)
(* errors are the fields of the Controller and of the objects it owns; pc  *)
(* is the position in Controller.start (or the name of the object whose    *)
(* methods are being called directly).  errors is the set of keys of the   *)
(* Controller's errors dict: the value under "screen" is the list object   *)
(* screen.errors itself and the value under "input buffer" is the list     *)
(* object input_buffer itself, so each always shows that list's contents.  *)
(* iter, nmoves, ncalls, last, prev_screen, prev_actor, prev_buffer and    *)
(* start are history variables: the number of iterations begun, of         *)
(* Snake.move calls and of direct calls of Screen methods, the last call   *)
(* with its arguments, the values before that call, and the values at      *)
(* construction.  log is a history variable too: log.polls[k] is what the  *)
(* poll of iteration k of Controller.start read, log.dirs[k] the actor's   *)
(* direction when iteration k called actor.move().                         *)
(***************************************************************************)
VARIABLES w, h, screen, actor, food, input_buffer, exit_signal, cap, errors,
          pc, iter, nmoves, ncalls, last, prev_screen, prev_actor, prev_buffer,
          start, log

vars == <<w, h, screen, actor, food, input_buffer, exit_signal, cap, errors,
          pc, iter, nmoves, ncalls, last, prev_screen, prev_actor, prev_buffer,
          start, log>>

NoCall == [op |-> "none", args |-> <<>>]

\* The values the history variables take at construction.
History ==
    /\ iter = 0
    /\ nmoves = 0
    /\ ncalls = 0
    /\ last = NoCall
    /\ prev_screen = NewScreen(1, 1)
    /\ prev_actor = actor
    /\ prev_buffer = input_buffer
    /\ start = [actor |-> actor, buffer |-> input_buffer]
    /\ log = [polls |-> <<>>, dirs |-> <<>>]

\* The sizes the Controller is constructed with: the default, and the sizes
\* around the actor's length and the food's coordinates.
CtlSizes == {DefaultW, DefaultH} \cup ((ActorLength - 1)..FoodXY)

\* Controller.__init__(wd, ht), with the exit signal and the buffer given.
Controller(wd, ht, sig, buf) ==
    /\ w = wd
    /\ h = ht
    /\ screen = NewScreen(wd, ht)
    /\ exit_signal = sig
    /\ actor = Snake(<<0, 0>>, ActorLength, Right, 1)
    /\ food = <<FoodXY, FoodXY>>
    /\ input_buffer = buf
    /\ cap = MAX_INPUT_BUFFER
    /\ errors = {}

\* Controller() or Controller(w, h), then start().
Init ==
    /\ \E wd \in CtlSizes, ht \in CtlSizes, sig \in ExitSignals :
          Controller(wd, ht, sig, <<>>)
    /\ pc = "update"
    /\ History

\* What getch can return: a key, None on a timeout; on ETX it exits.
PollResults == Keys \cup {None, ETX}

\* An update that advances the actor before it looks at the buffered key.
UpdateMovesFirst ==
    /\ pc = "update"
    /\ iter < MaxIter
    /\ LET got == get_input(input_buffer)
           ch == got[1]
           moved == move(actor, w, h)
           turned == [moved EXCEPT !.direction = NewDirection(ch, @)]
           drawn == WorldDraw(clear(screen, w, h), turned.body, food)
       IN  /\ input_buffer' = got[2]
           /\ actor' = turned
           /\ screen' = drawn
           /\ pc' = IF drawn.raised THEN "raised" ELSE "show"
           /\ last' = [op |-> "update",
                       args |-> <<ch, SubSeq(drawn.errors, Len(screen.errors) + 1,
                                             Len(drawn.errors))>>]
           /\ log' = [log EXCEPT !.dirs = Append(@, actor.direction)]
    /\ iter' = iter + 1
    /\ nmoves' = nmoves + 1
    /\ prev_actor' = actor
    /\ prev_buffer' = input_buffer
    /\ UNCHANGED <<w, h, food, exit_signal, cap, errors, ncalls, prev_screen, start>>

\* An update that advances the actor only when a key was consumed.
UpdateMovesOnKey ==
    /\ pc = "update"
    /\ iter < MaxIter
    /\ LET got == get_input(input_buffer)
           ch == got[1]
           turned == [actor EXCEPT !.direction = NewDirection(ch, @)]
           moved == IF ch # None THEN move(turned, w, h) ELSE turned
           drawn == WorldDraw(clear(screen, w, h), moved.body, food)
       IN  /\ input_buffer' = got[2]
           /\ actor' = moved
           /\ screen' = drawn
           /\ pc' = IF drawn.raised THEN "raised" ELSE "show"
           /\ last' = [op |-> "update",
                       args |-> <<ch, SubSeq(drawn.errors, Len(screen.errors) + 1,
                                             Len(drawn.errors))>>]
           /\ nmoves' = IF ch # None THEN nmoves + 1 ELSE nmoves
           /\ log' = [log EXCEPT !.dirs = Append(@, turned.direction)]
    /\ iter' = iter + 1
    /\ prev_actor' = actor
    /\ prev_buffer' = input_buffer
    /\ UNCHANGED <<w, h, food, exit_signal, cap, errors, ncalls, prev_screen, start>>

\* Controller.update, the first step of an iteration of Controller.start.
Update ==
    /\ pc = "update"
    /\ iter < MaxIter
    /\ LET got == get_input(input_buffer)
           ch == got[1]
           turned == [actor EXCEPT !.direction = NewDirection(ch, @)]
           moved == move(turned, w, h)
           drawn == WorldDraw(clear(screen, w, h), moved.body, food)
       IN  /\ input_buffer' = got[2]
           /\ actor' = moved
           /\ screen' = drawn
           /\ pc' = IF drawn.raised THEN "raised" ELSE "show"
           /\ last' = [op |-> "update",
                       args |-> <<ch, SubSeq(drawn.errors, Len(screen.errors) + 1,
                                             Len(drawn.errors))>>]
           /\ log' = [log EXCEPT !.dirs = Append(@, turned.direction)]
    /\ iter' = iter + 1
    /\ nmoves' = nmoves + 1
    /\ prev_actor' = actor
    /\ prev_buffer' = input_buffer
    /\ UNCHANGED <<w, h, food, exit_signal, cap, errors, ncalls, prev_screen, start>>

\* screen.show(), _get_errors() and _show_error() of Controller.start.  The
\* history keeps the list collected and the entries the draw of this
\* iteration appended.
Diagnostics ==
    /\ pc = "show"
    /\ errors' = errors \cup {"screen"}
    /\ pc' = "poll"
    /\ last' = [op |-> "_get_errors", args |-> <<screen.errors, last.args[2]>>]
    /\ UNCHANGED <<w, h, screen, actor, food, input_buffer, exit_signal, cap,
                   iter, nmoves, ncalls, prev_screen, prev_actor, prev_buffer, start, log>>

\* A poll whose key reader hands the interrupt keystroke on like any key.
PollReturnsInterrupt(ch, from, to) ==
    /\ pc = from
    /\ input_buffer' = _buffer_input(input_buffer, cap, ch)
    /\ errors' = errors \cup {"input buffer"}
    /\ pc' = to
    /\ last' = [op |-> "_buffer_input", args |-> <<ch>>]
    /\ prev_buffer' = input_buffer
    /\ log' = IF from = "poll" THEN [log EXCEPT !.polls = Append(@, ch)] ELSE log
    /\ UNCHANGED <<w, h, screen, actor, food, exit_signal, cap, iter, nmoves, ncalls,
                   prev_screen, prev_actor, start>>

\* Controller._buffer_input with getch reading ch; on ETX _GetchUnix prints
\* "Interrupted" and calls exit(1).
Poll(ch, from, to) ==
    /\ pc = from
    /\ IF ch = ETX
       THEN /\ pc' = "interrupted"
            /\ UNCHANGED <<input_buffer, errors>>
       ELSE /\ input_buffer' = _buffer_input(input_buffer, cap, ch)
            /\ errors' = errors \cup {"input buffer"}
            /\ pc' = to
    /\ last' = [op |-> "_buffer_input", args |-> <<ch>>]
    /\ prev_buffer' = input_buffer
    /\ log' = IF from = "poll" THEN [log EXCEPT !.polls = Append(@, ch)] ELSE log
    /\ UNCHANGED <<w, h, screen, actor, food, exit_signal, cap, iter, nmoves, ncalls,
                   prev_screen, prev_actor, start>>

BufferInput == \E ch \in PollResults : Poll(ch, "poll", "exit_check")

\* The exit test that ends an iteration of Controller.start.
ExitCheck ==
    /\ pc = "exit_check"
    /\ pc' = IF _received_exit_signal(input_buffer, exit_signal)
             THEN "done" ELSE "update"
    /\ last' = [op |-> "_received_exit_signal", args |-> <<>>]
    /\ UNCHANGED <<w, h, screen, actor, food, input_buffer, exit_signal, cap,
                   errors, iter, nmoves, ncalls, prev_screen, prev_actor, prev_buffer,
                   start, log>>

Next == Update \/ Diagnostics \/ BufferInput \/ ExitCheck

Spec == Init /\ [][Next]_vars

(***************************************************************************)
(* Controller.start entered with keys already in the input buffer.         *)
(***************************************************************************)
\* The status the process ends with: exit(1) in _GetchUnix, or an uncaught
\* IndexError; 0 when main returns.
ExitStatus == IF pc \in {"interrupted", "raised"} THEN 1 ELSE 0

BoundedSeq(S, n) == UNION {[1..k -> S] : k \in 0..n}

PreloadKeys == {"w", "a", "q", "x"}

InitPreload ==
    /\ \E sig \in ExitSignals, buf \in BoundedSeq(PreloadKeys, MaxPreload) :
          Controller(DefaultW, DefaultH, sig, buf)
    /\ pc = "update"
    /\ History

SpecPreload == InitPreload /\ [][Next]_vars

(***************************************************************************)
(* Controller.start observed from the iterations in which the actor, sent  *)
(* right along the top row and then down the food's column, arrives at the *)
(* food.                                                                   *)
(***************************************************************************)
\* The actor after update() has consumed the keys ks, one per iteration.
RECURSIVE Replay(_, _, _, _)
Replay(a, ks, wd, ht) ==
    IF ks = <<>> THEN a
    ELSE Replay(move([a EXCEPT !.direction = NewDirection(Head(ks), @)], wd, ht),
                Tail(ks), wd, ht)

\* n iterations in which update() found the buffer empty.
NoKeys(n) == [i \in 1..n |-> None]

\* The keys consumed on the way: none while the head goes from column 0 to
\* the food's column, "s" there, none for the n rows after the turn.
ApproachKeys(n) == NoKeys(FoodXY) \o <<"s">> \o NoKeys(n)

\* The state at the head of the loop after those iterations: the last frame
\* is on the screen, both subsystems have reported, the last poll timed out.
InitApproach ==
    /\ \E sig \in ExitSignals, n \in (FoodXY - 3)..(FoodXY - 2) :
          /\ w = DefaultW
          /\ h = DefaultH
          /\ exit_signal = sig
          /\ actor = Replay(Snake(<<0, 0>>, ActorLength, Right, 1), ApproachKeys(n),
                            DefaultW, DefaultH)
          /\ food = <<FoodXY, FoodXY>>
          /\ screen = WorldDraw(NewScreen(DefaultW, DefaultH), actor.body, food)
          /\ input_buffer = <<>>
          /\ cap = MAX_INPUT_BUFFER
          /\ errors = {"screen", "input buffer"}
    /\ pc = "update"
    /\ History

SpecApproach == InitApproach /\ [][Next]_vars

(***************************************************************************)
(* The buffer methods of a Controller(1, 1) called directly, in any order,  *)
(* from any buffer of at most cap + 1 entries, with _MAX_INPUT_BUFFER as   *)
(* constructed or set to a small value.                                    *)
(***************************************************************************)
BufferKeys == {"w", "q"}

InitBuffer ==
    /\ \E c \in (1..MaxCap) \cup {MAX_INPUT_BUFFER} :
          \E buf \in IF c <= MaxCap
                     THEN BoundedSeq(BufferKeys, c + 1)
                     ELSE {[i \in 1..k |-> "w"] : k \in 0..(c + 1)} :
             /\ w = 1
             /\ h = 1
             /\ screen = NewScreen(1, 1)
             /\ exit_signal = "q"
             /\ actor = Snake(<<0, 0>>, ActorLength, Right, 1)
             /\ food = <<FoodXY, FoodXY>>
             /\ input_buffer = buf
             /\ cap = c
             /\ errors = {}
    /\ pc = "buffer"
    /\ History

CallBufferInput ==
    \E ch \in BufferKeys \cup {None, ETX} : Poll(ch, "buffer", "buffer")

CallGetInput ==
    /\ pc = "buffer"
    /\ input_buffer' = get_input(input_buffer)[2]
    /\ last' = [op |-> "get_input", args |-> <<get_input(input_buffer)[1]>>]
    /\ prev_buffer' = input_buffer
    /\ UNCHANGED <<w, h, screen, actor, food, exit_signal, cap, errors, pc,
                   iter, nmoves, ncalls, prev_screen, prev_actor, start, log>>

NextBuffer == CallBufferInput \/ CallGetInput

SpecBuffer == InitBuffer /\ [][NextBuffer]_vars

(***************************************************************************)
(* A Snake in a World, with Snake.move called directly.  No Screen or      *)
(* Controller is constructed; their variables hold fixed values.           *)
(***************************************************************************)
Idle ==
    /\ screen = NewScreen(1, 1)
    /\ food = <<0, 0>>
    /\ input_buffer = <<>>
    /\ exit_signal = "q"
    /\ cap = MAX_INPUT_BUFFER
    /\ errors = {}

SnakeWorlds ==
    {<<wd, ht>> : wd \in 1..MaxDim, ht \in 1..MaxDim} \cup {<<DefaultW, DefaultH>>}

InitSnake ==
    /\ \E wh \in SnakeWorlds : w = wh[1] /\ h = wh[2]
    /\ \E x \in -1..MaxDim, y \in -1..MaxDim,
          length \in (1..MaxLen) \cup {ActorLength},
          dir \in Directions, spd \in 0..MaxSpeed :
          actor = Snake(<<x, y>>, length, dir, spd)
    /\ Idle
    /\ pc = "snake"
    /\ History

CallMove ==
    /\ pc = "snake"
    /\ nmoves < Max(w, h) + MaxExtraMoves
    /\ actor' = move(actor, w, h)
    /\ nmoves' = nmoves + 1
    /\ last' = [op |-> "move", args |-> <<>>]
    /\ prev_actor' = actor
    /\ UNCHANGED <<w, h, screen, food, input_buffer, exit_signal, cap, errors,
                   pc, iter, ncalls, prev_screen, prev_buffer, start, log>>

NextSnake == CallMove

SpecSnake == InitSnake /\ [][NextSnake]_vars

(***************************************************************************)
(* A Snake in a World used through everything it offers as a WObject:      *)
(* Snake.move, and the place and move it inherits from WObject (the latter *)
(* is shadowed by Snake.move and is called as WObject.move(snake, dx, dy)).*)
(***************************************************************************)
\* WObject.move
WObject_move(a, dx, dy) == [a EXCEPT !.pos = <<a.pos[1] + dx, a.pos[2] + dy>>]

\* WObject.place
place(a, x, y) == [a EXCEPT !.pos = <<x, y>>]

InitObject ==
    /\ \E wh \in {<<MaxDim, MaxDim>>, <<DefaultW, DefaultH>>} : w = wh[1] /\ h = wh[2]
    /\ \E x \in 0..(MaxDim - 1), y \in 0..(MaxDim - 1), length \in 1..MaxLen,
          dir \in Directions :
          actor = Snake(<<x, y>>, length, dir, 1)
    /\ Idle
    /\ pc = "snake"
    /\ History

CallPlace ==
    /\ pc = "snake"
    /\ ncalls < MaxObjectCalls
    /\ \E x \in 0..(MaxDim - 1), y \in 0..(MaxDim - 1) :
          /\ actor' = place(actor, x, y)
          /\ last' = [op |-> "place", args |-> <<x, y>>]
    /\ ncalls' = ncalls + 1
    /\ prev_actor' = actor
    /\ UNCHANGED <<w, h, screen, food, input_buffer, exit_signal, cap, errors,
                   pc, iter, nmoves, prev_screen, prev_buffer, start, log>>

CallObjectMove ==
    /\ pc = "snake"
    /\ ncalls < MaxObjectCalls
    /\ \E dx \in -1..1, dy \in -1..1 :
          /\ actor' = WObject_move(actor, dx, dy)
          /\ last' = [op |-> "WObject.move", args |-> <<dx, dy>>]
    /\ ncalls' = ncalls + 1
    /\ prev_actor' = actor
    /\ UNCHANGED <<w, h, screen, food, input_buffer, exit_signal, cap, errors,
                   pc, iter, nmoves, prev_screen, prev_buffer, start, log>>

CallAdvance ==
    /\ nmoves < MaxObjectCalls
    /\ CallMove

NextObject == CallAdvance \/ CallPlace \/ CallObjectMove

SpecObject == InitObject /\ [][NextObject]_vars

(***************************************************************************)
(* A Screen with set_pixel and clear called directly.                      *)
(***************************************************************************)
InitScreen ==
    /\ \E wd \in 1..MaxScreenDim, ht \in 1..MaxScreenDim :
          /\ w = wd
          /\ h = ht
          /\ screen = NewScreen(wd, ht)
    /\ actor = Snake(<<0, 0>>, 1, Right, 1)
    /\ food = <<0, 0>>
    /\ input_buffer = <<>>
    /\ exit_signal = "q"
    /\ cap = MAX_INPUT_BUFFER
    /\ errors = {}
    /\ pc = "screen"
    /\ History

CallSetPixel ==
    /\ pc = "screen"
    /\ ncalls < MaxScreenOps
    /\ \E x \in -1..(Max(w, h) + 1), y \in -1..(Max(w, h) + 1),
          pixel \in {SnakePixel, FoodPixel} :
          /\ screen' = set_pixel(screen, x, y, pixel)
          /\ last' = [op |-> "set_pixel", args |-> <<x, y, pixel>>]
    /\ pc' = IF screen'.raised THEN "raised" ELSE "screen"
    /\ ncalls' = ncalls + 1
    /\ prev_screen' = screen
    /\ UNCHANGED <<w, h, actor, food, input_buffer, exit_signal, cap, errors,
                   iter, nmoves, prev_actor, prev_buffer, start, log>>

CallClear ==
    /\ pc = "screen"
    /\ ncalls < MaxScreenOps
    /\ screen' = clear(screen, w, h)
    /\ last' = [op |-> "clear", args |-> <<>>]
    /\ ncalls' = ncalls + 1
    /\ prev_screen' = screen
    /\ UNCHANGED <<w, h, actor, food, input_buffer, exit_signal, cap, errors,
                   pc, iter, nmoves, prev_actor, prev_buffer, start, log>>

NextScreen == CallSetPixel \/ CallClear

SpecScreen == InitScreen /\ [][NextScreen]_vars

(***************************************************************************)
(* Properties                                                              *)
(***************************************************************************)
Called(op) == last.op = op

ExitIn(buf) == \E i \in 1..Len(buf) : buf[i] = exit_signal

\* C1 (exit scan): when the exit check of an iteration finds the exit
\* character at any index of the input buffer the loop is terminated by that
\* check, and a terminated loop takes no further step (no update, advance or
\* poll).
C1_ExitScan ==
    /\ [](Called("_received_exit_signal") /\ ExitIn(input_buffer) => pc = "done")
    /\ [][pc # "done"]_vars

\* The loop has ended on an exit character that is the oldest of three
\* buffered entries and not the newest.
C1_Witness ==
    /\ pc = "done"
    /\ Len(input_buffer) = 3
    /\ input_buffer[1] = exit_signal
    /\ input_buffer[2] # exit_signal
    /\ input_buffer[3] # exit_signal

Abs(n) == IF n < 0 THEN -n ELSE n

\* c is the representative in 0..(m - 1) of n modulo m.
IsMod(c, n, m) ==
    /\ c \in 0..(m - 1)
    /\ \E k \in (-(Abs(n) + 1))..(Abs(n) + 1) : c = n + k * m

\* C2 (wrap invariant): Snake.move sets the head to the old head moved by
\* direction * speed, each coordinate reduced by the mathematical modulo of
\* the world's width and height, so the new head lies in [0,W) x [0,H).
C2_Wrap ==
    Called("move") =>
        LET p == prev_actor.body[1]
            dx == prev_actor.direction[1] * prev_actor.speed
            dy == prev_actor.direction[2] * prev_actor.speed
        IN  /\ IsMod(actor.body[1][1], p[1] + dx, w)
            /\ IsMod(actor.body[1][2], p[2] + dy, h)

\* A move to the left by two cells from column 0 of a world three wide, which
\* wraps to column 1.
C2_Witness ==
    /\ Called("move")
    /\ w = 3
    /\ prev_actor.body[1][1] = 0
    /\ prev_actor.direction = Left
    /\ prev_actor.speed = 2
    /\ actor.body[1][1] = 1

\* C3 (body shift): after Snake.move every segment behind the head holds the
\* position its predecessor had before the move, and the body has the length
\* it was created with.
C3_BodyShift ==
    /\ Len(actor.body) = Len(start.actor.body)
    /\ Called("move") =>
          \A i \in 2..Len(actor.body) : actor.body[i] = prev_actor.body[i - 1]

\* A second move of a snake of three segments that occupy different cells.
C3_Witness ==
    /\ Called("move")
    /\ nmoves = 2
    /\ Len(actor.body) = 3
    /\ actor.body[1] # actor.body[2]
    /\ actor.body[2] # actor.body[3]
    /\ prev_actor.body[1] # prev_actor.body[2]

\* The arguments of the last direct call of Screen.set_pixel.
ArgX == last.args[1]
ArgY == last.args[2]
ArgPixel == last.args[3]

InGrid(x, y) == x \in 0..(w - 1) /\ y \in 0..(h - 1)

\* C4 (bounds rejection): a set_pixel outside [0,width) x [0,height) leaves
\* the grid as it was, appends exactly one entry to the error list and does
\* not raise.
C4_BoundsRejection ==
    Called("set_pixel") /\ ~InGrid(ArgX, ArgY) =>
        /\ ~screen.raised
        /\ screen.pixels = prev_screen.pixels
        /\ Len(screen.errors) = Len(prev_screen.errors) + 1

\* C5 (in-bounds write): a set_pixel inside [0,width) x [0,height) does not
\* raise, records no error, sets the cell of row y and column x to the pixel
\* and changes no other cell.
C5_InBoundsWrite ==
    Called("set_pixel") /\ InGrid(ArgX, ArgY) =>
        /\ ~screen.raised
        /\ screen.errors = prev_screen.errors
        /\ ArgY + 1 \in DOMAIN screen.pixels
        /\ ArgX + 1 \in DOMAIN screen.pixels[ArgY + 1]
        /\ screen.pixels[ArgY + 1][ArgX + 1] = ArgPixel
        /\ \A r \in DOMAIN screen.pixels : \A c \in DOMAIN screen.pixels[r] :
              <<r, c>> # <<ArgY + 1, ArgX + 1>> =>
                  screen.pixels[r][c] = prev_screen.pixels[r][c]

\* The key read by the last poll, and whether it was buffered.
Polled == last.args[1]
PolledKey == Called("_buffer_input") /\ Polled \notin {None, ETX}

DropOldest(buf) == SubSeq(buf, 2, Len(buf))

\* C6 (buffer eviction), as claimed: a poll that returns a key while the
\* buffer holds N = _MAX_INPUT_BUFFER entries removes the oldest entry,
\* appends the key and leaves N entries.
C6_Eviction ==
    PolledKey /\ Len(prev_buffer) = cap =>
        /\ input_buffer = Append(DropOldest(prev_buffer), Polled)
        /\ Len(input_buffer) = cap

\* C6 (buffer eviction), amended: a poll that returns a key while the buffer
\* holds N + 1 entries removes exactly the oldest entry, appends the key and
\* leaves N + 1 entries; while the buffer holds exactly N entries nothing is
\* removed and the key is appended, which leaves N + 1 entries.
C6_EvictionAmended ==
    PolledKey =>
        /\ Len(prev_buffer) = cap + 1 =>
              /\ input_buffer = Append(DropOldest(prev_buffer), Polled)
              /\ Len(input_buffer) = cap + 1
        /\ Len(prev_buffer) = cap =>
              /\ input_buffer = Append(prev_buffer, Polled)
              /\ Len(input_buffer) = cap + 1

\* A poll of "q" into a buffer of eleven entries with the capacity at its
\* default of ten.
C6_Witness ==
    /\ PolledKey
    /\ cap = 10
    /\ Len(prev_buffer) = 11
    /\ Polled = "q"
    /\ Len(input_buffer) = 11
    /\ input_buffer[11] = "q"

\* C7 (buffer bound): from any buffer of at most MAX_BUFFER + 1 entries, no
\* sequence of polls and consumptions leaves more than MAX_BUFFER + 1
\* entries; a poll removes nothing or the oldest entry only, and a
\* consumption removes entries from the front only.
C7_BufferBound ==
    /\ Len(input_buffer) <= cap + 1
    /\ Called("_buffer_input") /\ Polled # ETX =>
          LET pushed(b) == IF Polled = None THEN b ELSE Append(b, Polled)
          IN  input_buffer \in {pushed(prev_buffer), pushed(DropOldest(prev_buffer))}
    /\ Called("get_input") =>
          \E k \in 0..Len(prev_buffer) :
              input_buffer = SubSeq(prev_buffer, k + 1, Len(prev_buffer))

\* A poll that timed out on a buffer of three entries with capacity two, whose
\* oldest and newest entries differ: the oldest is gone.
C7_Witness ==
    /\ Called("_buffer_input")
    /\ Polled = None
    /\ cap = 2
    /\ Len(prev_buffer) = 3
    /\ prev_buffer[1] # prev_buffer[3]
    /\ input_buffer = DropOldest(prev_buffer)

\* C8 (per-frame diagnostics): the screen error list collected by
\* _get_errors holds exactly the overflows recorded by the draw of the same
\* iteration.
C8_PerFrameDiagnostics ==
    Called("_get_errors") => "screen" \in errors /\ last.args[1] = last.args[2]

\* The direction each key stands for.
KeyDirection(k) ==
    IF k = "w" THEN <<0, -1>>
    ELSE IF k = "a" THEN <<-1, 0>>
    ELSE IF k = "s" THEN <<0, 1>>
    ELSE <<1, 0>>

\* The loop was entered with the buffer [k1, e, k2], k1 a direction key and e
\* the exit character.
DirectionExitKey ==
    /\ Len(start.buffer) = 3
    /\ start.buffer[1] \in {"w", "a", "s", "d"}
    /\ start.buffer[2] = exit_signal

\* C9 (FIFO consumption with early exit): from the buffer [k1, e, k2] the
\* first iteration consumes k1 alone and sets the direction k1 stands for, e
\* and k2 stay at the front of the buffer, the exit check of that iteration
\* ends the loop, and no second iteration begins, so k2 is never consumed.
C9_FifoEarlyExit ==
    DirectionExitKey =>
        /\ iter <= 1
        /\ iter = 1 =>
              /\ actor.direction = KeyDirection(start.buffer[1])
              /\ Len(input_buffer) >= 2
              /\ input_buffer[1] = start.buffer[2]
              /\ input_buffer[2] = start.buffer[3]
              /\ pc # "update"
              /\ Called("update") => input_buffer = Tail(start.buffer)
              /\ Called("_received_exit_signal") => pc = "done"

\* The loop entered with ["w", "q", "a"] and exit character "q" has ended
\* with the direction up and "q", "a" still buffered.
C9_Witness ==
    /\ start.buffer = <<"w", "q", "a">>
    /\ exit_signal = "q"
    /\ pc = "done"
    /\ iter = 1
    /\ actor.direction = <<0, -1>>
    /\ SubSeq(input_buffer, 1, 2) = <<"q", "a">>

\* C10 (toroidal periodicity): at speed 1 a snake whose head starts in the
\* grid has its head back on the starting cell after W moves in a horizontal
\* direction and after H moves in a vertical one; on the 20x20 world the
\* snake of length 9 created at (0, 0) heading (1, 0) has its head at (1, 0)
\* after one move and at (0, 0) after twenty.
C10_Periodicity ==
    LET s == start.actor
    IN  /\ s.speed = 1 /\ InGrid(s.pos[1], s.pos[2]) =>
              /\ s.direction[2] = 0 /\ nmoves = w => actor.body[1] = s.pos
              /\ s.direction[1] = 0 /\ nmoves = h => actor.body[1] = s.pos
        /\ /\ w = 20
           /\ h = 20
           /\ Len(s.body) = 9
           /\ s.pos = <<0, 0>>
           /\ s.direction = <<1, 0>>
           /\ s.speed = 1
           => /\ nmoves = 1 => actor.body[1] = <<1, 0>>
              /\ nmoves = 20 => actor.body[1] = <<0, 0>>

\* Twenty moves of the default snake on the default world.
C10_Witness ==
    /\ w = 20
    /\ h = 20
    /\ start.actor = [pos |-> <<0, 0>>,
                      body |-> [i \in 1..9 |-> <<0, i - 1>>],
                      direction |-> <<1, 0>>, speed |-> 1]
    /\ nmoves = 20
    /\ actor.body[1] = <<0, 0>>
    /\ actor.body[9] = <<12, 0>>

\* C11 (abrupt termination): a poll that reads the interrupt keystroke stops
\* the process at once with a non-zero status, whatever the exit character;
\* the keystroke is never in the input buffer, the buffer is left as it was,
\* the loop is not terminated through its exit check, and nothing runs
\* afterwards.
C11_AbruptTermination ==
    /\ [](/\ \A i \in 1..Len(input_buffer) : input_buffer[i] # ETX
          /\ Called("_buffer_input") /\ Polled = ETX =>
                /\ pc = "interrupted"
                /\ ExitStatus # 0
                /\ input_buffer = prev_buffer
          /\ pc = "interrupted" => Called("_buffer_input") /\ Polled = ETX
          /\ pc = "done" => ExitStatus = 0 /\ Called("_received_exit_signal"))
    /\ [][pc # "interrupted"]_vars

\* The interrupt keystroke was read while keys were buffered and the exit
\* character was "x".
C11_Witness ==
    /\ pc = "interrupted"
    /\ Polled = ETX
    /\ exit_signal = "x"
    /\ Len(input_buffer) = 2
    /\ input_buffer = prev_buffer
    /\ iter = 1

\* The key at the front of the buffer when the last update began, None when
\* the buffer was empty.
FrontKey == IF prev_buffer = <<>> THEN None ELSE prev_buffer[1]

\* C12 (direction update): an update consults the front key of the buffer
\* only; "w", "a", "s", "d" set the direction (0,-1), (-1,0), (0,1), (1,0);
\* any other key, or an empty buffer, leaves the direction as it was and
\* records no error; the keys behind the front one stay in the buffer.
C12_DirectionUpdate ==
    Called("update") =>
        /\ input_buffer = DropOldest(prev_buffer)
        /\ FrontKey \in {"w", "a", "s", "d"} =>
              actor.direction = KeyDirection(FrontKey)
        /\ FrontKey \notin {"w", "a", "s", "d"} =>
              /\ actor.direction = prev_actor.direction
              /\ last.args[2] = <<>>
              /\ pc = "show"

\* An update that consumed the unrecognized key "x" in front of "w" while
\* heading left: the direction is still left and "w" is still buffered.
C12_Witness ==
    /\ Called("update")
    /\ prev_buffer = <<"x", "w">>
    /\ input_buffer = <<"w">>
    /\ prev_actor.direction = <<-1, 0>>
    /\ actor.direction = <<-1, 0>>

\* The body b1 is the body b0 advanced once in the direction d.
AdvancedOnce(b0, b1, d) ==
    /\ Len(b1) = Len(b0)
    /\ \A i \in 2..Len(b1) : b1[i] = b0[i - 1]
    /\ IsMod(b1[1][1], b0[1][1] + d[1], w)
    /\ IsMod(b1[1][2], b0[1][2] + d[2], h)
    /\ b1[1] # b0[1]

\* C13 (unconditional advance): every iteration advances the actor exactly
\* once, whether a key was consumed and recognized or not, so the number of
\* advances always equals the number of iterations begun.
C13_UnconditionalAdvance ==
    /\ nmoves = iter
    /\ Called("update") => AdvancedOnce(prev_actor.body, actor.body, actor.direction)

\* Two iterations are complete, neither of which turned the actor, and the
\* head is two cells to the right of where it started.
C13_Witness ==
    /\ iter = 2
    /\ pc = "update"
    /\ Called("_received_exit_signal")
    /\ exit_signal = "q"
    /\ nmoves = 2
    /\ actor.body[1] = <<2, 0>>
    /\ actor.body[2] = <<1, 0>>
    /\ actor.body[3] = <<0, 0>>

DirectionKeys == {"w", "a", "s", "d"}

\* The number of direction keys waiting in the buffer.
Pending == Cardinality({i \in 1..Len(input_buffer) : input_buffer[i] \in DirectionKeys})

\* C14 (direction latency): the advance of iteration 1 uses the direction
\* the actor was created with, and the advance of iteration k + 1 uses the
\* direction of the key the poll of iteration k returned (the direction of
\* iteration k when that poll returned no direction key); the key polled in
\* an iteration never reaches the advance of the same iteration, and at no
\* time is more than one direction change waiting in the buffer.
C14_DirectionLatency ==
    /\ Len(log.dirs) = iter
    /\ Len(log.polls) \in {iter - 1, iter}
    /\ \A k \in 1..Len(log.dirs) :
          log.dirs[k] = IF k = 1 THEN start.actor.direction
                        ELSE IF log.polls[k - 1] \in DirectionKeys
                             THEN KeyDirection(log.polls[k - 1])
                        ELSE log.dirs[k - 1]
    /\ Called("update") =>
          AdvancedOnce(prev_actor.body, actor.body, log.dirs[iter])
    /\ Pending <= 1

\* The first poll returned "s"; the first advance went right and the second
\* one went down.
C14_Witness ==
    /\ Called("update")
    /\ iter = 2
    /\ log.polls = <<"s">>
    /\ log.dirs = <<(<<1, 0>>), (<<0, 1>>)>>
    /\ actor.body[1] = <<1, 1>>
    /\ actor.body[2] = <<1, 0>>
    /\ actor.body[3] = <<0, 0>>

\* The cell (x, y) is kept by the screen, which indexes its rows by y.
Stored(x, y) ==
    /\ y + 1 \in 1..Len(screen.pixels)
    /\ x + 1 \in 1..Len(screen.pixels[1])

\* What the cell (x, y) shows; a cell the screen does not keep shows nothing.
Glyph(x, y) == IF Stored(x, y) THEN screen.pixels[y + 1][x + 1] ELSE D_PIXEL

OnBody(x, y) == \E i \in 1..Len(actor.body) : actor.body[i] = <<x, y>>

\* C15 (frame content and draw order): after the clear-and-redraw step of
\* an iteration has completed, the cell of the food holds the food's glyph,
\* also when a body segment is on the same cell; every other cell holding a
\* body segment holds the actor's glyph; every remaining cell is empty,
\* whatever the frame before had drawn there.
C15_FrameContent ==
    Called("update") /\ ~screen.raised =>
        \A x \in 0..(Max(w, h) - 1), y \in 0..(Max(w, h) - 1) :
            InGrid(x, y) \/ Stored(x, y) =>
                Glyph(x, y) = IF <<x, y>> = food THEN FoodPixel
                              ELSE IF OnBody(x, y) THEN SnakePixel
                              ELSE D_PIXEL

\* C16 (head/position sync): after the creation of the actor and after
\* every operation on it -- the advance, and the place and move it has as a
\* WObject -- the actor's position is its first body segment.
C16_HeadSync == actor.pos = actor.body[1]

\* C17 (direction domain): in every state of the loop, whatever keys the
\* polls have returned, the actor's direction is one of (0,-1), (0,1),
\* (-1,0), (1,0).
C17_DirectionDomain ==
    actor.direction \in {<<0, -1>>, <<0, 1>>, <<-1, 0>>, <<1, 0>>}

\* The first poll returned "a", the second update has turned the actor from
\* right to left, and the second poll returned the exit character.
C17_Witness ==
    /\ iter = 2
    /\ log.polls = <<"a", "q">>
    /\ exit_signal = "q"
    /\ start.actor.direction = <<1, 0>>
    /\ actor.direction = <<-1, 0>>
    /\ pc = "done"

\* C18 (buffer occupancy in the loop): started with an empty buffer, the
\* loop never has more than one entry in the input buffer; every poll finds
\* the buffer empty, so _buffer_input never evicts and a polled key becomes
\* the only entry; the update of the next iteration consumes exactly what
\* the poll before it returned and leaves the buffer empty.
C18_SingleEntry ==
    /\ Len(input_buffer) <= 1
    /\ Called("_buffer_input") =>
          /\ prev_buffer = <<>>
          /\ ~(Len(prev_buffer) > cap)
          /\ PolledKey => input_buffer = <<Polled>>
          /\ Polled = None => input_buffer = <<>>
    /\ Called("update") =>
          /\ input_buffer = <<>>
          /\ last.args[1] = IF iter = 1 THEN None ELSE log.polls[iter - 1]

\* The key "w" polled in iteration 1 was consumed by iteration 2, whose own
\* poll has put "a" into the buffer as its only entry.
C18_Witness ==
    /\ iter = 2
    /\ pc = "exit_check"
    /\ log.polls = <<"w", "a">>
    /\ actor.direction = <<0, -1>>
    /\ prev_buffer = <<>>
    /\ input_buffer = <<"a">>

\* The loop of Controller.start has been left, by its exit check or by an
\* exception that update() did not catch.
LoopEnded == pc \in {"done", "raised"}

\* The poll of the current iteration has run and returned the exit character.
ExitPolled == Len(log.polls) = iter /\ iter >= 1 /\ log.polls[iter] = exit_signal

\* C19 (termination): the loop ends in an iteration if and only if the poll
\* of that same iteration returned the exit character; every iteration
\* starts with no exit character in the buffer, so update() never consumes
\* the exit character and no exit character polled earlier ends the loop;
\* without an exit character (or the interrupt) from the input source the
\* loop does not end.
C19_ExitOnlyOnPoll ==
    /\ LoopEnded => ExitPolled
    /\ Called("_received_exit_signal") /\ ExitPolled => pc = "done"
    /\ pc = "update" => ~ExitIn(input_buffer)
    /\ Called("update") => last.args[1] # exit_signal

\* The actor was created with every body segment inside the grid.
CreatedInGrid ==
    \A i \in 1..Len(start.actor.body) :
        InGrid(start.actor.body[i][1], start.actor.body[i][2])

\* The positions the screen rejected during the last update().
Rejected == {last.args[2][j] : j \in 1..Len(last.args[2])}

\* C20 (actor stays in bounds): when the actor is created with every body
\* segment inside the grid, every body segment is inside the grid after any
\* number of advances and direction changes, and hence no draw of a body
\* segment is rejected by the screen as out of bounds: no entry of the
\* screen's error list is for a cell the actor is on.
C20_ActorInBounds ==
    CreatedInGrid =>
        /\ \A i \in 1..Len(actor.body) : InGrid(actor.body[i][1], actor.body[i][2])
        /\ Called("update") => \A i \in 1..Len(actor.body) : actor.body[i] \notin Rejected

====
